---- MODULE Spec2Model ----
(***************************************************************************)
(* Weather dashboard: the refresh pipeline of src/Weatherdashboard.py (a   *)
(* Tk window, a queue.Queue of city names and one daemon worker thread)    *)
(* and the single-threaded script src/pro.py.                              *)
(*                                                                         *)
(* Spec    is the WeatherDashboard application: the UI thread enqueues,    *)
(*         the worker thread runs update_worker one statement at a time.   *)
(* SpecPro is pro.py: every callback runs whole on the Tk main loop.       *)
(***************************************************************************)
EXTENDS Integers, Sequences, FiniteSets, TLC

VARIABLES
    \* ---- WeatherDashboard (src/Weatherdashboard.py) ----
    update_queue,   \* self.update_queue: cities waiting for the worker
    city_var,       \* text of the search entry
    status_var,     \* text of the status bar
    temp_var, condition_var, humidity_var, wind_var, pressure_var,
    icon_image,     \* self.icon_label.image: the icon shown ("" = none)
    canvas,         \* the series the forecast canvas shows
    history_file,   \* data/weather_history.csv: [exists, lines]
    clock,          \* datetime.now(), read by save_weather_data
    pc,             \* the worker thread's position in update_worker
    city,           \* update_worker's local `city`
    weather_data,   \* update_worker's local `weather_data`
    weather,        \* process_weather_data's local `weather`
    \* history variables of the dashboard (observations, never read by the code)
    enqLog,         \* every city put on update_queue, in order
    fetchLog,       \* every city get_weather was called with, in order
    inFlight,       \* get_weather calls that have started and not returned
    cycle,          \* number of requests dequeued so far
    events,         \* terminal status emissions: [cycle, kind, text]
    trace,          \* stages the current cycle has entered, in order
    callFailed,     \* current cycle: the current or the forecast call failed
    rowsAtStart,    \* data rows of history_file when the current cycle began
    uiWriters,      \* threads that have written a Tk variable or widget
    ioCallers,      \* threads that have called the provider or the CSV file
    \* ---- pro.py (src/pro.py) ----
    city_entry,     \* text of the entry widget
    temp_label, condition_label, humidity_label,
    icon_label,     \* image shown by icon_label ("" = none)
    pro_file,       \* weather_history.csv: [exists, lines]
    phase,          \* "startup" (line 113 not yet run), "mainloop", "crashed"
    timer,          \* root.after callback pending
    updates,        \* number of update_weather calls so far
    lastOutcome     \* outcome of the latest update_weather call

dashVars == <<update_queue, city_var, status_var, temp_var, condition_var,
              humidity_var, wind_var, pressure_var, icon_image, canvas,
              history_file, clock, pc, city, weather_data, weather, enqLog,
              fetchLog, inFlight, cycle, events, trace, callFailed,
              rowsAtStart, uiWriters, ioCallers>>

proVars == <<city_entry, temp_label, condition_label, humidity_label,
             icon_label, pro_file, phase, timer, updates, lastOutcome>>

vars == <<dashVars, proVars>>

(***************************************************************************)
(* Bounds                                                                  *)
(***************************************************************************)
\* cities put on update_queue in one run (the initial load included)
MaxRequests == 2
\* update_weather calls of pro.py in one run
MaxProUpdates == 3

(***************************************************************************)
(* Values                                                                  *)
(***************************************************************************)
None == [none |-> TRUE]

\* config.ini default: APP.default_city
default_city == "London"

\* what the user may have typed in the entry when Search is pressed
EntryTexts == {"London", " Paris ", "", "  "}

\* two observations the provider may report
ObsA == [temp_c |-> 15, condition |-> [text |-> "Cloudy", icon |-> "//cdn/cloudy.png"],
         humidity |-> 80, wind_kph |-> 10, pressure_mb |-> 1012, feelslike_c |-> 14]
ObsB == [temp_c |-> 22, condition |-> [text |-> "Sunny", icon |-> "//cdn/sunny.png"],
         humidity |-> 40, wind_kph |-> 5, pressure_mb |-> 1020, feelslike_c |-> 23]

\* JSON bodies of current.json: two well-formed, one without the 'current' key
CurrentBodies == {[current |-> ObsA], [current |-> ObsB], [error |-> "drift"]}

Hours == <<[time |-> "00:00", temp_c |-> 14], [time |-> "01:00", temp_c |-> 13]>>

\* JSON bodies of forecast.json: one well-formed, one without the 'forecast' key
ForecastBodies == {[forecast |-> [forecastday |-> <<[hour |-> Hours]>>]],
                   [error |-> "drift"]}

\* the ways one HTTP GET can end
\*   neterr     session.get raises a requests.RequestException
\*   http_error a response whose raise_for_status() raises HTTPError
\*   not_json   a 2xx response whose body is not JSON
\*   json       a 2xx response with a JSON body
Responses(bodies) ==
    {[kind |-> "neterr"], [kind |-> "http_error"], [kind |-> "not_json"]}
    \cup {[kind |-> "json", body |-> b] : b \in bodies}

(***************************************************************************)
(* Pure functions                                                          *)
(***************************************************************************)
\* str.strip() (spaces only)
RECURSIVE LStrip(_)
LStrip(s) ==
    IF Len(s) > 0 /\ SubSeq(s, 1, 1) = " " THEN LStrip(SubSeq(s, 2, Len(s))) ELSE s

RECURSIVE RStrip(_)
RStrip(s) ==
    IF Len(s) > 0 /\ SubSeq(s, Len(s), Len(s)) = " "
    THEN RStrip(SubSeq(s, 1, Len(s) - 1)) ELSE s

strip(s) == RStrip(LStrip(s))

\* WeatherAPI.get_weather: the set of outcomes for the two responses.
\* Both requests are sent before either status is looked at.  A body that is
\* not JSON makes .json() raise: a RequestException (caught, None) with a
\* requests release whose JSONDecodeError derives from it, a plain ValueError
\* (escapes get_weather) with an older one.
get_weather(cur, fc) ==
    IF cur.kind = "neterr" \/ fc.kind = "neterr" THEN {[ret |-> None]}
    ELSE IF cur.kind = "http_error" \/ fc.kind = "http_error" THEN {[ret |-> None]}
    ELSE IF cur.kind = "not_json" \/ fc.kind = "not_json"
         THEN {[ret |-> None], [raise |-> "ValueError"]}
    ELSE {[ret |-> [current |-> cur.body, forecast |-> fc.body]]}

\* the fields process_weather_data reads from data['current']['current']
CurrentKeys == {"temp_c", "condition", "humidity", "wind_kph", "pressure_mb", "feelslike_c"}

\* process_weather_data, lines 324-334: the WeatherData record, or KeyError
WeatherData(data) ==
    IF "current" \notin DOMAIN data.current THEN [raise |-> "KeyError"]
    ELSE LET current == data.current.current IN
         IF ~(CurrentKeys \subseteq DOMAIN current) THEN [raise |-> "KeyError"]
         ELSE [temperature |-> current.temp_c,
               condition   |-> current.condition.text,
               humidity    |-> current.humidity,
               wind_speed  |-> current.wind_kph,
               pressure    |-> current.pressure_mb,
               feels_like  |-> current.feelslike_c,
               icon_url    |-> "http:" \o current.condition.icon]

\* update_ui, lines 353-357: the five texts, in the order they are set
DisplayTexts(w) ==
    <<ToString(w.temperature) \o "°C",
      w.condition,
      ToString(w.humidity) \o "%",
      ToString(w.wind_speed) \o " km/h",
      ToString(w.pressure) \o " mb">>

\* update_forecast_graph, lines 372-374: the plotted series, or an exception
ForecastSeries(forecast_data) ==
    IF "forecast" \notin DOMAIN forecast_data THEN [raise |-> "KeyError"]
    ELSE IF Len(forecast_data.forecast.forecastday) = 0 THEN [raise |-> "IndexError"]
    ELSE LET hours == forecast_data.forecast.forecastday[1].hour IN
         [times |-> [i \in 1..Len(hours) |-> hours[i].time],
          temps |-> [i \in 1..Len(hours) |-> hours[i].temp_c]]

\* save_weather_data, lines 121-129: the cells of the CSV line
HeaderRow == <<"timestamp", "city", "temperature", "condition", "humidity",
               "wind_speed", "pressure">>

\* a variant of CsvRow that writes feels_like into the temperature column
CsvRowFeelsLike(now, c, w) ==
    <<ToString(now), c, ToString(w.feels_like), w.condition,
      ToString(w.humidity), ToString(w.wind_speed), ToString(w.pressure)>>

CsvRow(now, c, w) ==
    <<ToString(now), c, ToString(w.temperature), w.condition,
      ToString(w.humidity), ToString(w.wind_speed), ToString(w.pressure)>>

\* df.to_csv(history_file, mode='a', header=not history_file.exists())
to_csv(file, row) ==
    [exists |-> TRUE,
     lines  |-> IF file.exists THEN Append(file.lines, row)
                ELSE file.lines \o <<HeaderRow, row>>]

\* the lines of a history file that are not the header row
DataRows(file) == SelectSeq(file.lines, LAMBDA l : l # HeaderRow)

Range(s) == {s[i] : i \in 1..Len(s)}

IsPrefix(s, t) == Len(s) <= Len(t) /\ SubSeq(t, 1, Len(s)) = s

(***************************************************************************)
(* WeatherDashboard: construction                                          *)
(***************************************************************************)
NoFile == [exists |-> FALSE, lines |-> <<>>]

EmptyCanvas == [times |-> <<>>, temps |-> <<>>]

\* __init__, lines 137-154: the widgets are built, the worker thread is
\* started and load_initial_data has put the default city on the queue
DashInit ==
    /\ update_queue = <<default_city>>
    /\ city_var = default_city
    /\ status_var = ""
    /\ temp_var = "" /\ condition_var = "" /\ humidity_var = ""
    /\ wind_var = "" /\ pressure_var = ""
    /\ icon_image = ""
    /\ canvas = EmptyCanvas
    /\ history_file = NoFile
    /\ clock = 0
    /\ pc = "get"
    /\ city = ""
    /\ weather_data = None
    /\ weather = None
    /\ enqLog = <<default_city>>
    /\ fetchLog = <<>>
    /\ inFlight = 0
    /\ cycle = 0
    /\ events = <<>>
    /\ trace = <<>>
    /\ callFailed = FALSE
    /\ rowsAtStart = 0
    /\ uiWriters = {"ui"}
    /\ ioCallers = {}

(***************************************************************************)
(* WeatherDashboard: the UI thread                                         *)
(***************************************************************************)
\* update_weather, lines 392-398 (the Search button), after the user has
\* typed `text`: a blank entry shows a warning and enqueues nothing
update_weather ==
    /\ Len(enqLog) < MaxRequests
    /\ \E text \in EntryTexts :
         /\ city_var' = text
         /\ IF strip(text) # ""
            THEN /\ update_queue' = Append(update_queue, strip(text))
                 /\ enqLog' = Append(enqLog, strip(text))
            ELSE UNCHANGED <<update_queue, enqLog>>
    /\ uiWriters' = uiWriters \cup {"ui"}
    /\ UNCHANGED <<status_var, temp_var, condition_var, humidity_var, wind_var,
                   pressure_var, icon_image, canvas, history_file, clock, pc,
                   city, weather_data, weather, fetchLog, inFlight, cycle,
                   events, trace, callFailed, rowsAtStart, ioCallers>>
    /\ UNCHANGED proVars

(***************************************************************************)
(* WeatherDashboard: the worker thread (update_worker, lines 303-319)      *)
(***************************************************************************)
\* a variant order of process_weather_data that saves the record before it
\* displays it
SaveFirstOrder == <<"normalize", "save", "update_ui", "update_graph", "set_updated">>

\* the statements of process_weather_data's try block, in program order
\* (lines 324-345)
ProcessOrder == <<"normalize", "update_ui", "update_graph", "save", "set_updated">>

\* the statement that follows `step` in process_weather_data
After(step) ==
    LET i == CHOOSE j \in 1..Len(ProcessOrder) : ProcessOrder[j] = step
    IN  ProcessOrder[i + 1]

\* self.status_var.set(text) on the worker thread.  The call enters Tcl from
\* a thread that does not run the main loop and may raise (RuntimeError,
\* TclError).  `kind` tags the texts that end a cycle.
StatusSet(text, kind, onOk, onRaise) ==
    /\ uiWriters' = uiWriters \cup {"worker"}
    /\ \E ok \in BOOLEAN :
         IF ok
         THEN /\ status_var' = text
              /\ pc' = onOk
              /\ events' = IF kind = "none" THEN events
                           ELSE Append(events, [cycle |-> cycle, kind |-> kind, text |-> text])
         ELSE /\ pc' = onRaise
              /\ UNCHANGED <<status_var, events>>
    \* the locals of a finished iteration are dead
    /\ IF pc' = "get" THEN weather_data' = None /\ weather' = None
       ELSE UNCHANGED <<weather_data, weather>>

\* line 307: city = self.update_queue.get()
Dequeue ==
    /\ pc = "get"
    /\ update_queue # <<>>
    /\ city' = Head(update_queue)
    /\ update_queue' = Tail(update_queue)
    /\ cycle' = cycle + 1
    /\ trace' = <<>>
    /\ callFailed' = FALSE
    /\ rowsAtStart' = Len(DataRows(history_file))
    /\ pc' = "set_fetching"
    /\ UNCHANGED <<city_var, status_var, temp_var, condition_var, humidity_var,
                   wind_var, pressure_var, icon_image, canvas, history_file,
                   clock, weather_data, weather, enqLog, fetchLog, inFlight,
                   events, uiWriters, ioCallers>>
    /\ UNCHANGED proVars

\* line 308
SetFetching ==
    /\ pc = "set_fetching"
    /\ StatusSet("Fetching weather data for " \o city \o "...", "none",
                 "get_weather", "handler")
    /\ UNCHANGED <<update_queue, city_var, temp_var, condition_var, humidity_var,
                   wind_var, pressure_var, icon_image, canvas, history_file,
                   clock, city, enqLog, fetchLog, inFlight, cycle, trace,
                   callFailed, rowsAtStart, ioCallers>>
    /\ UNCHANGED proVars

\* line 310, the call: both requests go out
GetWeatherCall ==
    /\ pc = "get_weather"
    /\ fetchLog' = Append(fetchLog, city)
    /\ inFlight' = inFlight + 1
    /\ trace' = Append(trace, "Fetching")
    /\ ioCallers' = ioCallers \cup {"worker"}
    /\ pc' = "in_get_weather"
    /\ UNCHANGED <<update_queue, city_var, status_var, temp_var, condition_var,
                   humidity_var, wind_var, pressure_var, icon_image, canvas,
                   history_file, clock, city, weather_data, weather, enqLog,
                   cycle, events, callFailed, rowsAtStart, uiWriters>>
    /\ UNCHANGED proVars

\* a response that is no well-formed document of its endpoint
CurrentFailed(cur) ==
    cur.kind # "json" \/ "raise" \in DOMAIN WeatherData([current |-> cur.body])

ForecastFailed(fc) ==
    fc.kind # "json" \/ "raise" \in DOMAIN ForecastSeries(fc.body)

\* lines 310-314, the return of get_weather and the branch on its result
GetWeatherReturn ==
    /\ pc = "in_get_weather"
    /\ inFlight' = inFlight - 1
    /\ \E cur \in Responses(CurrentBodies), fc \in Responses(ForecastBodies) :
         /\ callFailed' = (CurrentFailed(cur) \/ ForecastFailed(fc))
         /\ \E out \in get_weather(cur, fc) :
              IF "raise" \in DOMAIN out
              THEN pc' = "handler" /\ UNCHANGED weather_data
              ELSE IF out.ret = None
                   THEN pc' = "set_failed_fetch" /\ UNCHANGED weather_data
                   ELSE pc' = ProcessOrder[1] /\ weather_data' = out.ret
    /\ UNCHANGED <<update_queue, city_var, status_var, temp_var, condition_var,
                   humidity_var, wind_var, pressure_var, icon_image, canvas,
                   history_file, clock, city, weather, enqLog, fetchLog, cycle,
                   events, trace, rowsAtStart, uiWriters, ioCallers>>
    /\ UNCHANGED proVars

\* line 314
SetFailedFetch ==
    /\ pc = "set_failed_fetch"
    /\ StatusSet("Failed to fetch weather data", "Failure", "get", "handler")
    /\ UNCHANGED <<update_queue, city_var, temp_var, condition_var, humidity_var,
                   wind_var, pressure_var, icon_image, canvas, history_file,
                   clock, city, enqLog, fetchLog, inFlight, cycle, trace,
                   callFailed, rowsAtStart, ioCallers>>
    /\ UNCHANGED proVars

\* process_weather_data, lines 324-334
Normalize ==
    /\ pc = "normalize"
    /\ trace' = Append(trace, "Normalizing")
    /\ LET w == WeatherData(weather_data) IN
         IF "raise" \in DOMAIN w
         THEN pc' = "set_process_failed" /\ UNCHANGED weather
         ELSE pc' = After("normalize") /\ weather' = w
    /\ UNCHANGED <<update_queue, city_var, status_var, temp_var, condition_var,
                   humidity_var, wind_var, pressure_var, icon_image, canvas,
                   history_file, clock, city, weather_data, enqLog, fetchLog,
                   inFlight, cycle, events, callFailed, rowsAtStart, uiWriters,
                   ioCallers>>
    /\ UNCHANGED proVars

\* how many of update_ui's five StringVar.set calls return before one raises
SetsDone == 0..5

\* update_ui, lines 351-367, called at line 337.  The five texts are set in
\* order; a raising set leaves the later ones unwritten and leaves
\* process_weather_data's try block.  The icon download and display are in a
\* try block of their own.
UpdateUi ==
    /\ pc = "update_ui"
    /\ trace' = Append(trace, "Displaying")
    /\ uiWriters' = uiWriters \cup {"worker"}
    /\ \E k \in SetsDone, iconOk \in BOOLEAN :
         LET new == DisplayTexts(weather) IN
         /\ temp_var'      = IF k >= 1 THEN new[1] ELSE temp_var
         /\ condition_var' = IF k >= 2 THEN new[2] ELSE condition_var
         /\ humidity_var'  = IF k >= 3 THEN new[3] ELSE humidity_var
         /\ wind_var'      = IF k >= 4 THEN new[4] ELSE wind_var
         /\ pressure_var'  = IF k >= 5 THEN new[5] ELSE pressure_var
         /\ IF k < Len(new)
            THEN /\ ~iconOk
                 /\ pc' = "set_process_failed"
                 /\ UNCHANGED <<icon_image, ioCallers>>
            ELSE /\ icon_image' = IF iconOk THEN weather.icon_url ELSE icon_image
                 /\ ioCallers' = ioCallers \cup {"worker"}
                 /\ pc' = After("update_ui")
    /\ UNCHANGED <<update_queue, city_var, status_var, canvas, history_file,
                   clock, city, weather_data, weather, enqLog, fetchLog,
                   inFlight, cycle, events, callFailed, rowsAtStart>>
    /\ UNCHANGED proVars

\* update_forecast_graph, lines 369-390, called at line 340: every exception
\* is logged and dropped; the canvas changes only when canvas.draw() is reached
UpdateGraph ==
    /\ pc = "update_graph"
    /\ trace' = Append(trace, "Charting")
    /\ uiWriters' = uiWriters \cup {"worker"}
    /\ LET series == ForecastSeries(weather_data.forecast) IN
         \E drawOk \in BOOLEAN :
            canvas' = IF "raise" \notin DOMAIN series /\ drawOk THEN series ELSE canvas
    /\ pc' = After("update_graph")
    /\ UNCHANGED <<update_queue, city_var, status_var, temp_var, condition_var,
                   humidity_var, wind_var, pressure_var, icon_image,
                   history_file, clock, city, weather_data, weather, enqLog,
                   fetchLog, inFlight, cycle, events, callFailed, rowsAtStart,
                   ioCallers>>
    /\ UNCHANGED proVars

\* save_weather_data, lines 118-133, called at line 343; a failing write
\* sends the caller to `onFail`
SaveStep(onFail) ==
    /\ pc = "save"
    /\ trace' = Append(trace, "Persisting")
    /\ ioCallers' = ioCallers \cup {"worker"}
    /\ clock' = clock + 1
    /\ \E ioOk \in BOOLEAN :
         IF ioOk
         THEN /\ history_file' = to_csv(history_file, CsvRow(clock, city, weather))
              /\ pc' = After("save")
         ELSE /\ UNCHANGED history_file
              /\ pc' = onFail
    /\ UNCHANGED <<update_queue, city_var, status_var, temp_var, condition_var,
                   humidity_var, wind_var, pressure_var, icon_image, canvas,
                   city, weather_data, weather, enqLog, fetchLog, inFlight,
                   cycle, events, callFailed, rowsAtStart, uiWriters>>
    /\ UNCHANGED proVars

\* a variant of save_weather_data without its try block: a failing write
\* raises into process_weather_data's handler
save_weather_data_raising == SaveStep("set_process_failed")

\* lines 120-133: the write is inside try/except Exception, which logs the
\* error and returns normally, so the caller goes on to its next statement
save_weather_data == SaveStep(After("save"))

\* line 345, then the return to update_worker and task_done (line 316)
SetUpdated ==
    /\ pc = "set_updated"
    /\ trace' = Append(trace, "Reporting")
    /\ StatusSet("Weather updated for " \o city, "Result", "get", "set_process_failed")
    /\ UNCHANGED <<update_queue, city_var, temp_var, condition_var, humidity_var,
                   wind_var, pressure_var, icon_image, canvas, history_file,
                   clock, city, enqLog, fetchLog, inFlight, cycle, callFailed,
                   rowsAtStart, ioCallers>>
    /\ UNCHANGED proVars

\* lines 347-349: process_weather_data's handler; its own status_var.set is
\* not protected and raises into update_worker
SetProcessFailed ==
    /\ pc = "set_process_failed"
    /\ StatusSet("Failed to process weather data", "Failure", "get", "handler")
    /\ UNCHANGED <<update_queue, city_var, temp_var, condition_var, humidity_var,
                   wind_var, pressure_var, icon_image, canvas, history_file,
                   clock, city, enqLog, fetchLog, inFlight, cycle, trace,
                   callFailed, rowsAtStart, ioCallers>>
    /\ UNCHANGED proVars

\* lines 317-319: update_worker's handler.  Its status_var.set is inside the
\* while loop but outside any try: when it raises, the exception leaves
\* update_worker and the thread ends
Handler ==
    /\ pc = "handler"
    /\ StatusSet("An error occurred", "Failure", "get", "dead")
    /\ UNCHANGED <<update_queue, city_var, temp_var, condition_var, humidity_var,
                   wind_var, pressure_var, icon_image, canvas, history_file,
                   clock, city, enqLog, fetchLog, inFlight, cycle, trace,
                   callFailed, rowsAtStart, ioCallers>>
    /\ UNCHANGED proVars

update_worker ==
    \/ Dequeue
    \/ SetFetching
    \/ GetWeatherCall
    \/ GetWeatherReturn
    \/ SetFailedFetch
    \/ Normalize
    \/ UpdateUi
    \/ UpdateGraph
    \/ save_weather_data
    \/ SetUpdated
    \/ SetProcessFailed
    \/ Handler

(***************************************************************************)
(* pro.py                                                                  *)
(***************************************************************************)
\* the placeholder inserted at line 79
Placeholder == "Enter City Name"

\* what the user may type into the entry (FocusIn clears it first, line 80)
ProEntryTexts == {"London", "Paris"}

\* fetch_weather, lines 9-21: the four values, four Nones, or an exception
fetch_weather(resp) ==
    IF resp.kind = "neterr" THEN [raise |-> "RequestException"]
    ELSE IF resp.kind = "http_error" THEN [ret |-> None]
    ELSE IF resp.kind = "not_json" THEN [raise |-> "ValueError"]
    ELSE IF "current" \notin DOMAIN resp.body THEN [raise |-> "KeyError"]
    ELSE LET current == resp.body.current IN
         [ret |-> [temperature |-> current.temp_c,
                   condition   |-> current.condition.text,
                   humidity    |-> current.humidity,
                   icon_url    |-> current.condition.icon]]

\* save_to_csv, lines 46-54: the cells of the line, appended with header=False
ProCsvRow(c, r) == <<c, ToString(r.temperature), r.condition, ToString(r.humidity)>>

save_to_csv(file, row) == [exists |-> TRUE, lines |-> Append(file.lines, row)]

\* the header row a reader of weather_history.csv would expect
ProHeaderRow == <<"City", "Temperature", "Condition", "Humidity">>

\* update_weather raises: fetch_weather raised, or the file or the icon failed
UpdateRaises(resp, ioOk, iconOk) ==
    LET r == fetch_weather(resp) IN
    \/ "raise" \in DOMAIN r
    \/ (r.ret # None /\ (~ioOk \/ ~iconOk))

\* update_weather, lines 24-43, run whole on the main loop
ProUpdateWeather(resp, ioOk, iconOk) ==
    LET r == fetch_weather(resp) IN
    /\ updates' = updates + 1
    /\ IF "raise" \in DOMAIN r
       THEN /\ lastOutcome' = "raised"
            /\ UNCHANGED <<temp_label, condition_label, humidity_label,
                           icon_label, pro_file>>
       ELSE IF r.ret = None
       THEN /\ lastOutcome' = "fetch_failed"
            /\ temp_label' = "Error fetching data"
            /\ condition_label' = ""
            /\ humidity_label' = ""
            /\ icon_label' = ""
            /\ UNCHANGED pro_file
       ELSE /\ temp_label' = ToString(r.ret.temperature) \o "°C"
            /\ condition_label' = r.ret.condition
            /\ humidity_label' = ToString(r.ret.humidity) \o "%"
            /\ pro_file' = IF ioOk THEN save_to_csv(pro_file, ProCsvRow(city_entry, r.ret))
                           ELSE pro_file
            /\ icon_label' = IF ioOk /\ iconOk THEN "http:" \o r.ret.icon_url
                             ELSE icon_label
            /\ lastOutcome' = IF ioOk /\ iconOk THEN "shown" ELSE "raised"

ProInit ==
    /\ city_entry = Placeholder
    /\ temp_label = "" /\ condition_label = "" /\ humidity_label = ""
    /\ icon_label = ""
    /\ pro_file = NoFile
    /\ phase = "startup"
    /\ timer = FALSE
    /\ updates = 0
    /\ lastOutcome = "none"

\* line 113: the first update_weather_periodically(), before mainloop; an
\* exception here ends the script
Startup ==
    /\ phase = "startup"
    /\ \E resp \in Responses(CurrentBodies), ioOk \in BOOLEAN, iconOk \in BOOLEAN :
         /\ ProUpdateWeather(resp, ioOk, iconOk)
         /\ IF UpdateRaises(resp, ioOk, iconOk)
            THEN phase' = "crashed" /\ UNCHANGED timer
            ELSE phase' = "mainloop" /\ timer' = TRUE
    /\ UNCHANGED city_entry
    /\ UNCHANGED dashVars

\* the user clicks into the entry (line 80 deletes its text) and types
TypeCity ==
    /\ phase = "mainloop"
    /\ \E text \in ProEntryTexts : city_entry' = text /\ text # city_entry
    /\ UNCHANGED <<temp_label, condition_label, humidity_label, icon_label,
                   pro_file, phase, timer, updates, lastOutcome>>
    /\ UNCHANGED dashVars

\* the Get Weather button, line 83
ButtonClick ==
    /\ phase = "mainloop"
    /\ updates < MaxProUpdates
    /\ \E resp \in Responses(CurrentBodies), ioOk \in BOOLEAN, iconOk \in BOOLEAN :
         ProUpdateWeather(resp, ioOk, iconOk)
    /\ UNCHANGED <<city_entry, phase, timer>>
    /\ UNCHANGED dashVars

\* update_weather_periodically, lines 57-59, from root.after: when
\* update_weather raises, line 59 is not reached and no callback is pending
update_weather_periodically ==
    /\ phase = "mainloop"
    /\ timer
    /\ updates < MaxProUpdates
    /\ \E resp \in Responses(CurrentBodies), ioOk \in BOOLEAN, iconOk \in BOOLEAN :
         /\ ProUpdateWeather(resp, ioOk, iconOk)
         /\ timer' = ~UpdateRaises(resp, ioOk, iconOk)
    /\ UNCHANGED <<city_entry, phase>>
    /\ UNCHANGED dashVars

(***************************************************************************)
(* Specifications                                                          *)
(***************************************************************************)
Init == DashInit /\ ProInit

Next == update_weather \/ update_worker

Spec == Init /\ [][Next]_vars

ProNext == Startup \/ TypeCity \/ ButtonClick \/ update_weather_periodically

SpecPro == Init /\ [][ProNext]_vars

(***************************************************************************)
(* Properties                                                              *)
(***************************************************************************)
\* the five weather texts on screen are those of record w
Shows(w) ==
    <<temp_var, condition_var, humidity_var, wind_var, pressure_var>> = DisplayTexts(w)

\* the events of the current cycle
CycleEvents == SelectSeq(events, LAMBDA e : e.cycle = cycle)

\* the current cycle called save_weather_data and the file gained no row
AppendFailed == "Persisting" \in Range(trace) /\ Len(DataRows(history_file)) = rowsAtStart

\* C1: no error raised while handling a request ever terminates the worker
\* thread: after every failure, a failing status emission inside a handler
\* included, the worker is alive and returns to the dequeue.
C1_WorkerNeverTerminates == pc # "dead"

\* C2: the worker calls the Fetcher once per request, in enqueue order, and
\* at most one call is in flight: the cities fetched are a prefix of the
\* cities enqueued, and once a cycle is over every dequeued request has been
\* fetched.
C2_FetchOncePerRequestInOrder ==
    /\ inFlight <= 1
    /\ IsPrefix(fetchLog, enqLog)
    /\ pc = "get" => Len(fetchLog) = cycle

\* C3: every consumed request produces exactly one terminal event (Result or
\* Failure): when a cycle is over (the worker waits at the dequeue, or has
\* stopped), the i-th event belongs to the i-th request and there are as
\* many events as requests consumed.
C3_OneTerminalEventPerRequest ==
    /\ \A i \in 1..Len(events) : events[i].cycle = i
    /\ pc \in {"get", "dead"} => Len(events) = cycle

\* C4: a fetch fails as a unit: in a cycle whose current or forecast call
\* failed (network error, non-success status, malformed body) no weather
\* field of that cycle is shown, and the cycle's terminal event is a Failure.
C4_FetchFailsAsUnit ==
    callFailed =>
        /\ ~("Displaying" \in Range(trace) /\ weather # None /\ temp_var = DisplayTexts(weather)[1])
        /\ \A i \in 1..Len(CycleEvents) : CycleEvents[i].kind = "Failure"

C6_ThreadConfinement ==
    /\ uiWriters \subseteq {"ui"}
    /\ ioCallers \subseteq {"worker"}

StageOrder == <<"Fetching", "Normalizing", "Displaying", "Charting", "Persisting", "Reporting">>

C8_RowsState ==
    LET rows  == DataRows(history_file)
        added == Len(rows) - rowsAtStart
    IN  /\ added \in {0, 1}
        /\ "Persisting" \notin Range(trace) => added = 0
        /\ Len(rows) <= Len(fetchLog)
        /\ (added = 1 /\ weather # None) =>
              LET row == rows[Len(rows)] IN
              /\ row[2] = city
              /\ row[3] = ToString(weather.temperature)
              /\ row[4] = weather.condition
              /\ row[5] = ToString(weather.humidity)
              /\ row[6] = ToString(weather.wind_speed)
              /\ row[7] = ToString(weather.pressure)

\* C8: the history file holds one row per cycle whose fetch, normalization
\* and append succeeded, with the request's city and the record's values; a
\* cycle that ends before the append (fetch or normalization failure) adds no
\* row, no cycle adds more than one, and existing lines are never changed or
\* removed.
C8_HistoryRows ==
    /\ []C8_RowsState
    /\ [][IsPrefix(history_file.lines, history_file'.lines)]_vars

\* C8: a cycle that appended its row, followed by a cycle that failed before the
\* append and left the file as it was
C8_Witness ==
    /\ pc = "get"
    /\ cycle = 2
    /\ Len(events) = 2
    /\ events[1].kind = "Result"
    /\ events[2].kind = "Failure"
    /\ "Persisting" \notin Range(trace)
    /\ Len(DataRows(history_file)) = 1
    /\ rowsAtStart = 1

\* C9: a failed cycle changes only the status text: after a Result has been
\* shown, a fetch failure leaves the weather texts and the icon as they were.
C9_FailureKeepsDisplay ==
    [][(lastOutcome = "shown" /\ updates' = updates + 1 /\ lastOutcome' = "fetch_failed")
          => UNCHANGED <<temp_label, condition_label, humidity_label, icon_label>>]_vars

\* C10: once the history file exists, its first line is the header row and
\* no other line is.
C10_HeaderOnce ==
    pro_file.exists =>
        /\ pro_file.lines[1] = ProHeaderRow
        /\ \A i \in 2..Len(pro_file.lines) : pro_file.lines[i] # ProHeaderRow

====
